---- MODULE Spec2Model ----
(***************************************************************************)
(* State-machine model of the nestjs-auth service: the account store       *)
(* (users), the session journal (user_sessions), the JWT guard chain       *)
(* (JwtAuthGuard -> RolesGuard) and the AuthService handlers reached       *)
(* through AuthController.  One action per HTTP endpoint; each action      *)
(* covers the guards and the whole handler.                                *)
(***************************************************************************)
EXTENDS Integers, FiniteSets, Sequences, TLC

VARIABLES users, sessions, nextUserId, nextSessionId, now, last, pending

vars == <<users, sessions, nextUserId, nextSessionId, now, last, pending>>

(***************************************************************************)
(* Bounds of the model.                                                    *)
(***************************************************************************)
MaxUsers == 2
MaxSessions == 2
MaxTime == 2
MaxPending == 2

(***************************************************************************)
(* Program constants.                                                      *)
(***************************************************************************)
\* Role enum (roles.enum.ts)
USER == "user"
ADMIN == "admin"
Role == {USER, ADMIN}

\* SessionAction enum
SIGNIN == "signin"
SIGNOUT == "signout"

\* Lifetime of a token, in clock units of 24 hours.
TokenTTL == 1

\* The key JwtStrategy verifies with, and a key that is not it.
JwtSecret == "default-secret-key"
OtherSecret == "some-other-key"

\* A falsy value of JavaScript in a string position: undefined or ''.
\* `!x` is true for both and `x === 'admin'` is false for both.
NotGiven == ""
\* A falsy value in a number position: undefined or 0.
NoSub == 0

NoToken == [payload |-> [sub |-> NoSub, email |-> NotGiven, role |-> NotGiven, createdAt |-> NotGiven],
            iat |-> 0, exp |-> 0, secret |-> NotGiven]
NoHeader == [scheme |-> NotGiven, token |-> NoToken]

(***************************************************************************)
(* Inputs.                                                                 *)
(***************************************************************************)
Emails == {"a@x.com", "b@x.com"}

Salts == {"s1"}

\* bcrypt.hash(password, 12): a 60-character digest string that embeds the
\* cost, the salt and the one-way image of the password.
BcryptHash(password, salt) == "$2a$12$" \o salt \o "$" \o password

PlainPasswords == {"pw123456"}

\* What a caller may send as the password field: any string of at least six
\* characters, which includes a string that has the shape of a bcrypt digest.
Passwords == PlainPasswords \cup {BcryptHash("pw123456", s) : s \in Salts}

\* bcrypt.compare(s, hash): true exactly when hash is a digest of s.
BcryptCompare(s, hash) == \E salt \in Salts : hash = BcryptHash(s, salt)

\* Date.prototype.toISOString
ToISOString(t) == "2025-09-15T" \o ToString(t) \o ":00:00.000Z"

(***************************************************************************)
(* Store lookups (TypeORM Repository.findOne).                             *)
(***************************************************************************)
FindByEmail(us, email) == {u \in us : u.email = email}
FindById(us, id) == {u \in us : u.id = id}

(***************************************************************************)
(* Token Codec (JwtService.sign / jsonwebtoken verify).  A token is the    *)
(* payload, the issue and expiry stamps and the key it was signed with; a  *)
(* signature verifies exactly under that key.                              *)
(***************************************************************************)
Sign(payload, t) == [payload |-> payload, iat |-> t, exp |-> t + TokenTTL, secret |-> JwtSecret]

\* Mutant of JwtVerify: the token is decoded, not verified.
JwtVerifyDecodeOnly(token, t) == TRUE

\* jsonwebtoken.verify: signature under the configured key, then
\* `clockTimestamp >= exp` is TokenExpiredError.
JwtVerify(token, t) == token.secret = JwtSecret /\ t < token.exp

(***************************************************************************)
(* Authentication Stage: JwtAuthGuard = AuthGuard('jwt') over JwtStrategy. *)
(***************************************************************************)
\* ExtractJwt.fromAuthHeaderAsBearerToken(): the scheme is compared
\* case-insensitively.
ToLowerCase(s) == IF s = "Bearer" THEN "bearer" ELSE s

HasBearerToken(header) == header # NoHeader /\ ToLowerCase(header.scheme) = "bearer"

\* JwtStrategy.validate
validateRejects(payload) == payload.sub = NoSub \/ payload.email = NotGiven \/ payload.role = NotGiven

validate(payload) == [userId |-> payload.sub, email |-> payload.email, role |-> payload.role]

\* TRUE when the guard lets the request through and attaches request.user.
JwtAuthGuard(header, t) ==
    /\ HasBearerToken(header)
    /\ JwtVerify(header.token, t)
    /\ ~validateRejects(header.token.payload)

RequestUser(header) == validate(header.token.payload)

(***************************************************************************)
(* Authorization Stage: RolesGuard.canActivate.                            *)
(***************************************************************************)
\* RolesGuard.extractTokenFromHeader: `type === 'Bearer'`, case-sensitive.
extractTokenFromHeader(header) == header # NoHeader /\ header.scheme = "Bearer"

\* The @Roles(...) metadata of a handler, as Reflector.getAllAndOverride
\* returns it: undefined when the handler declares none, else the roles.
NoRolesMetadata == [declared |-> FALSE, roles |-> {}]
Roles(roles) == [declared |-> TRUE, roles |-> roles]

\* Mutant of canActivate: ADMIN stands for every role.
canActivateHierarchy(requiredRoles, header, t) ==
    \/ ~requiredRoles.declared
    \/ /\ extractTokenFromHeader(header)
       /\ JwtVerify(header.token, t)
       /\ \E role \in requiredRoles.roles :
             header.token.payload.role = role \/ header.token.payload.role = ADMIN

canActivate(requiredRoles, header, t) ==
    \/ ~requiredRoles.declared
    \/ /\ extractTokenFromHeader(header)
       /\ JwtVerify(header.token, t)
       /\ \E role \in requiredRoles.roles : header.token.payload.role = role

(***************************************************************************)
(* Responses.  `last` is the last request and the response it got.         *)
(***************************************************************************)
Exception(status, message) == [status |-> status, message |-> message]

ConflictException(message) == Exception(409, message)
UnauthorizedException(message) == Exception(401, message)
ForbiddenException == Exception(403, "Forbidden resource")
NotFoundException(message) == Exception(404, message)
BadRequestException(message) == Exception(400, message)
InternalServerError == Exception(500, "Internal server error")

NoRequest == [op |-> "none", header |-> NoHeader, id |-> 0, email |-> NotGiven, password |-> NotGiven]

Request(op, header, id, email, password) ==
    [op |-> op, header |-> header, id |-> id, email |-> email, password |-> password]

Response(req, status, message, token, list) ==
    [req |-> req, status |-> status, message |-> message, token |-> token, users |-> list]

Thrown(req, e) == Response(req, e.status, e.message, NoToken, {})

(***************************************************************************)
(* Guard chain of a request: the 401 of JwtAuthGuard, the 403 of           *)
(* RolesGuard, or "pass".  Pipes and the handler run only after "pass".    *)
(***************************************************************************)
\* Mutant of GuardChain: RolesGuard is left out of @UseGuards.
GuardChainNoRolesGuard(requiredRoles, useRolesGuard, header, t) ==
    IF ~JwtAuthGuard(header, t) THEN "401" ELSE "pass"

GuardChain(requiredRoles, useRolesGuard, header, t) ==
    IF ~JwtAuthGuard(header, t) THEN "401"
    ELSE IF useRolesGuard /\ ~canActivate(requiredRoles, header, t) THEN "403"
    ELSE "pass"

GuardRejection(outcome) ==
    IF outcome = "401" THEN UnauthorizedException("Unauthorized") ELSE ForbiddenException

(***************************************************************************)
(* What a client may present in the Authorization header.  A token is      *)
(* either signed with the configured key or with another one, carries the  *)
(* claims of account 1 with a role claim of ADMIN, USER or none (the shape *)
(* AuthService.login issues), and was stamped at time 0 or just now.       *)
(***************************************************************************)
PresentedPayloads ==
    {[sub |-> 1, email |-> "a@x.com", role |-> r, createdAt |-> ToISOString(0)] : r \in {ADMIN, USER, NotGiven}}

PresentedTokens(t) ==
    {[payload |-> p, iat |-> i, exp |-> i + TokenTTL, secret |-> JwtSecret] :
        p \in PresentedPayloads, i \in {0, t}}
    \cup {[payload |-> p, iat |-> t, exp |-> t + TokenTTL, secret |-> OtherSecret] :
            p \in {x \in PresentedPayloads : x.role = ADMIN}}

Headers(t) ==
    {NoHeader}
    \cup {[scheme |-> "Bearer", token |-> tok] : tok \in PresentedTokens(t)}
    \cup {[scheme |-> "bearer", token |-> tok] :
            tok \in {x \in PresentedTokens(t) :
                        x.secret = JwtSecret /\ x.iat = t /\ x.payload.role = ADMIN}}

(***************************************************************************)
(* Session Journal: AuthService.logUserSession.  user_sessions.userId is a *)
(* foreign key to users.id, so the insert fails when no such user exists.  *)
(***************************************************************************)
ForeignKeyViolation(us, userId) == FindById(us, userId) = {}

\* Mutant of logUserSession: the user's row is overwritten, not added to.
logUserSessionReplace(userId, action) ==
    {s \in sessions : s.userId # userId}
    \cup {[id |-> nextSessionId, userId |-> userId, action |-> action, timestamp |-> now]}

logUserSession(userId, action) ==
    sessions \cup {[id |-> nextSessionId, userId |-> userId, action |-> action, timestamp |-> now]}

(***************************************************************************)
(* POST /auth/signup -> AuthService.signup                                 *)
(***************************************************************************)
\* Mutant of signup: no lookup of the email; save() upserts the account.
signupNoLookup(email, password) ==
    LET req == Request("signup", NoHeader, 0, email, password) IN
    /\ nextUserId <= MaxUsers
    /\ users' = {u \in users : u.email # email}
                 \cup {[id |-> nextUserId, email |-> email, passwordHash |-> password,
                        role |-> USER, createdAt |-> now]}
    /\ nextUserId' = nextUserId + 1
    /\ last' = Response(req, 201, "User registered successfully", NoToken, {})
    /\ UNCHANGED <<sessions, nextSessionId, now>>

signup(email, password) ==
    LET req == Request("signup", NoHeader, 0, email, password) IN
    IF FindByEmail(users, email) # {}
    THEN /\ last' = Thrown(req, ConflictException("User with this email already exists"))
         /\ UNCHANGED <<users, sessions, nextUserId, nextSessionId, now>>
    ELSE /\ nextUserId <= MaxUsers
         /\ users' = users \cup {[id |-> nextUserId, email |-> email, passwordHash |-> password,
                                  role |-> USER, createdAt |-> now]}
         /\ nextUserId' = nextUserId + 1
         /\ last' = Response(req, 201, "User registered successfully", NoToken, {})
         /\ UNCHANGED <<sessions, nextSessionId, now>>

(***************************************************************************)
(* POST /auth/login -> AuthService.login                                   *)
(***************************************************************************)
\* The exception login throws, or a 0-status record when it throws none.
NoException == Exception(0, NotGiven)

\* Mutant of loginException: an unknown email gets its own message.
loginExceptionUserNotFound(us, email, password) ==
    IF FindByEmail(us, email) = {}
    THEN UnauthorizedException("User not found")
    ELSE LET user == CHOOSE u \in FindByEmail(us, email) : TRUE IN
         IF ~BcryptCompare(password, user.passwordHash)
         THEN UnauthorizedException("Invalid credentials")
         ELSE NoException

loginException(us, email, password) ==
    IF FindByEmail(us, email) = {}
    THEN UnauthorizedException("Invalid credentials")
    ELSE LET user == CHOOSE u \in FindByEmail(us, email) : TRUE IN
         IF ~BcryptCompare(password, user.passwordHash)
         THEN UnauthorizedException("Invalid credentials")
         ELSE NoException

loginPayload(user) ==
    [sub |-> user.id, email |-> user.email, role |-> NotGiven, createdAt |-> ToISOString(user.createdAt)]

\* Mutant of login: the token is issued without the SIGNIN event.
loginNoSessionLog(email, password) ==
    LET req == Request("login", NoHeader, 0, email, password)
        e == loginException(users, email, password) IN
    IF e # NoException
    THEN /\ last' = Thrown(req, e)
         /\ UNCHANGED <<users, sessions, nextUserId, nextSessionId, now>>
    ELSE LET user == CHOOSE u \in FindByEmail(users, email) : TRUE IN
         /\ last' = Response(req, 201, "Login successful", Sign(loginPayload(user), now), {})
         /\ UNCHANGED <<users, sessions, nextUserId, nextSessionId, now>>

login(email, password) ==
    LET req == Request("login", NoHeader, 0, email, password)
        e == loginException(users, email, password) IN
    IF e # NoException
    THEN /\ last' = Thrown(req, e)
         /\ UNCHANGED <<users, sessions, nextUserId, nextSessionId, now>>
    ELSE LET user == CHOOSE u \in FindByEmail(users, email) : TRUE IN
         /\ nextSessionId <= MaxSessions
         /\ sessions' = logUserSession(user.id, SIGNIN)
         /\ nextSessionId' = nextSessionId + 1
         /\ last' = Response(req, 201, "Login successful", Sign(loginPayload(user), now), {})
         /\ UNCHANGED <<users, nextUserId, now>>

(***************************************************************************)
(* POST /auth/logout -> JwtAuthGuard -> AuthService.logout                 *)
(***************************************************************************)
\* Mutant of logout: a signout is recorded only for an open session.
logoutOnlyOpenSession(header) ==
    LET req == Request("logout", header, 0, NotGiven, NotGiven)
        g == GuardChain(NoRolesMetadata, FALSE, header, now) IN
    IF g # "pass"
    THEN /\ last' = Thrown(req, GuardRejection(g))
         /\ UNCHANGED <<users, sessions, nextUserId, nextSessionId, now>>
    ELSE LET userId == RequestUser(header).userId
             mine == {s \in sessions : s.userId = userId}
             open == \E s \in mine : s.action = SIGNIN /\ \A o \in mine : o.id <= s.id IN
         IF ForeignKeyViolation(users, userId)
         THEN /\ last' = Thrown(req, InternalServerError)
              /\ UNCHANGED <<users, sessions, nextUserId, nextSessionId, now>>
         ELSE IF ~open
         THEN /\ last' = Response(req, 201, "Logout successful", NoToken, {})
              /\ UNCHANGED <<users, sessions, nextUserId, nextSessionId, now>>
         ELSE /\ nextSessionId <= MaxSessions
              /\ sessions' = logUserSession(userId, SIGNOUT)
              /\ nextSessionId' = nextSessionId + 1
              /\ last' = Response(req, 201, "Logout successful", NoToken, {})
              /\ UNCHANGED <<users, nextUserId, now>>

\* Mutant of logout: the account is looked up by the email claim of the token.
logoutByEmail(header) ==
    LET req == Request("logout", header, 0, NotGiven, NotGiven)
        g == GuardChain(NoRolesMetadata, FALSE, header, now) IN
    IF g # "pass"
    THEN /\ last' = Thrown(req, GuardRejection(g))
         /\ UNCHANGED <<users, sessions, nextUserId, nextSessionId, now>>
    ELSE LET found == FindByEmail(users, RequestUser(header).email)
             userId == IF found = {} THEN RequestUser(header).userId
                       ELSE (CHOOSE u \in found : TRUE).id IN
         IF ForeignKeyViolation(users, userId)
         THEN /\ last' = Thrown(req, InternalServerError)
              /\ UNCHANGED <<users, sessions, nextUserId, nextSessionId, now>>
         ELSE /\ nextSessionId <= MaxSessions
              /\ sessions' = logUserSession(userId, SIGNOUT)
              /\ nextSessionId' = nextSessionId + 1
              /\ last' = Response(req, 201, "Logout successful", NoToken, {})
              /\ UNCHANGED <<users, nextUserId, now>>

logout(header) ==
    LET req == Request("logout", header, 0, NotGiven, NotGiven)
        g == GuardChain(NoRolesMetadata, FALSE, header, now) IN
    IF g # "pass"
    THEN /\ last' = Thrown(req, GuardRejection(g))
         /\ UNCHANGED <<users, sessions, nextUserId, nextSessionId, now>>
    ELSE LET userId == RequestUser(header).userId IN
         IF ForeignKeyViolation(users, userId)
         THEN /\ last' = Thrown(req, InternalServerError)
              /\ UNCHANGED <<users, sessions, nextUserId, nextSessionId, now>>
         ELSE /\ nextSessionId <= MaxSessions
              /\ sessions' = logUserSession(userId, SIGNOUT)
              /\ nextSessionId' = nextSessionId + 1
              /\ last' = Response(req, 201, "Logout successful", NoToken, {})
              /\ UNCHANGED <<users, nextUserId, now>>

(***************************************************************************)
(* PATCH /auth/update/:id -> JwtAuthGuard, RolesGuard, @Roles(ADMIN)       *)
(*                        -> AuthService.updateUser                        *)
(***************************************************************************)
\* Mutant of updateUser: the account takes the role of the caller's token.
updateUserRoleFromToken(header, userId, email, password) ==
    LET g == GuardChain(Roles({ADMIN}), TRUE, header, now) IN
    IF g # "pass"
    THEN /\ last' = Thrown(Request("updateUser", header, 0, NotGiven, NotGiven), GuardRejection(g))
         /\ UNCHANGED <<users, sessions, nextUserId, nextSessionId, now>>
    ELSE LET req == Request("updateUser", header, userId, email, password) IN
         IF email = NotGiven /\ password = NotGiven
         THEN /\ last' = Thrown(req, BadRequestException(
                            "At least one field (email or password) must be provided for update"))
              /\ UNCHANGED <<users, sessions, nextUserId, nextSessionId, now>>
         ELSE IF FindById(users, userId) = {}
         THEN /\ last' = Thrown(req, NotFoundException("User not found"))
              /\ UNCHANGED <<users, sessions, nextUserId, nextSessionId, now>>
         ELSE LET user == CHOOSE u \in FindById(users, userId) : TRUE
                  emailChanges == email # NotGiven /\ email # user.email IN
              IF emailChanges /\ FindByEmail(users, email) # {}
              THEN /\ last' = Thrown(req, ConflictException("User with this email already exists"))
                   /\ UNCHANGED <<users, sessions, nextUserId, nextSessionId, now>>
              ELSE /\ users' = (users \ {user}) \cup
                                {[user EXCEPT !.email = IF emailChanges THEN email ELSE @,
                                              !.passwordHash = IF password # NotGiven THEN password ELSE @,
                                              !.role = RequestUser(header).role]}
                   /\ last' = Response(req, 200, "User updated successfully", NoToken, {})
                   /\ UNCHANGED <<sessions, nextUserId, nextSessionId, now>>

\* Mutant of updateUser: the account is looked up before the body is checked.
updateUserLookupFirst(header, userId, email, password) ==
    LET g == GuardChain(Roles({ADMIN}), TRUE, header, now) IN
    IF g # "pass"
    THEN /\ last' = Thrown(Request("updateUser", header, 0, NotGiven, NotGiven), GuardRejection(g))
         /\ UNCHANGED <<users, sessions, nextUserId, nextSessionId, now>>
    ELSE LET req == Request("updateUser", header, userId, email, password) IN
         IF FindById(users, userId) = {}
         THEN /\ last' = Thrown(req, NotFoundException("User not found"))
              /\ UNCHANGED <<users, sessions, nextUserId, nextSessionId, now>>
         ELSE IF email = NotGiven /\ password = NotGiven
         THEN /\ last' = Thrown(req, BadRequestException(
                            "At least one field (email or password) must be provided for update"))
              /\ UNCHANGED <<users, sessions, nextUserId, nextSessionId, now>>
         ELSE LET user == CHOOSE u \in FindById(users, userId) : TRUE
                  emailChanges == email # NotGiven /\ email # user.email IN
              IF emailChanges /\ FindByEmail(users, email) # {}
              THEN /\ last' = Thrown(req, ConflictException("User with this email already exists"))
                   /\ UNCHANGED <<users, sessions, nextUserId, nextSessionId, now>>
              ELSE /\ users' = (users \ {user}) \cup
                                {[user EXCEPT !.email = IF emailChanges THEN email ELSE @,
                                              !.passwordHash = IF password # NotGiven THEN password ELSE @]}
                   /\ last' = Response(req, 200, "User updated successfully", NoToken, {})
                   /\ UNCHANGED <<sessions, nextUserId, nextSessionId, now>>


\* Mutant of updateUser: the password is saved before the email is checked.
updateUserPasswordBeforeEmail(header, userId, email, password) ==
    LET g == GuardChain(Roles({ADMIN}), TRUE, header, now) IN
    IF g # "pass"
    THEN /\ last' = Thrown(Request("updateUser", header, 0, NotGiven, NotGiven), GuardRejection(g))
         /\ UNCHANGED <<users, sessions, nextUserId, nextSessionId, now>>
    ELSE LET req == Request("updateUser", header, userId, email, password) IN
         IF email = NotGiven /\ password = NotGiven
         THEN /\ last' = Thrown(req, BadRequestException(
                            "At least one field (email or password) must be provided for update"))
              /\ UNCHANGED <<users, sessions, nextUserId, nextSessionId, now>>
         ELSE IF FindById(users, userId) = {}
         THEN /\ last' = Thrown(req, NotFoundException("User not found"))
              /\ UNCHANGED <<users, sessions, nextUserId, nextSessionId, now>>
         ELSE LET user == CHOOSE u \in FindById(users, userId) : TRUE
                  emailChanges == email # NotGiven /\ email # user.email IN
              IF emailChanges /\ FindByEmail(users, email) # {}
              THEN /\ last' = Thrown(req, ConflictException("User with this email already exists"))
                   /\ users' = (users \ {user}) \cup
                                {[user EXCEPT !.passwordHash = IF password # NotGiven THEN password ELSE @]}
                   /\ UNCHANGED <<sessions, nextUserId, nextSessionId, now>>
              ELSE /\ users' = (users \ {user}) \cup
                                {[user EXCEPT !.email = IF emailChanges THEN email ELSE @,
                                              !.passwordHash = IF password # NotGiven THEN password ELSE @]}
                   /\ last' = Response(req, 200, "User updated successfully", NoToken, {})
                   /\ UNCHANGED <<sessions, nextUserId, nextSessionId, now>>


\* Mutant of updateUser: save() of an unknown id inserts the row.
updateUserUpsert(header, userId, email, password) ==
    LET g == GuardChain(Roles({ADMIN}), TRUE, header, now) IN
    IF g # "pass"
    THEN /\ last' = Thrown(Request("updateUser", header, 0, NotGiven, NotGiven), GuardRejection(g))
         /\ UNCHANGED <<users, sessions, nextUserId, nextSessionId, now>>
    ELSE LET req == Request("updateUser", header, userId, email, password) IN
         IF email = NotGiven /\ password = NotGiven
         THEN /\ last' = Thrown(req, BadRequestException(
                            "At least one field (email or password) must be provided for update"))
              /\ UNCHANGED <<users, sessions, nextUserId, nextSessionId, now>>
         ELSE IF FindById(users, userId) = {}
         THEN /\ users' = users \cup {[id |-> userId, email |-> email, passwordHash |-> password,
                                        role |-> USER, createdAt |-> now]}
              /\ last' = Response(req, 200, "User updated successfully", NoToken, {})
              /\ UNCHANGED <<sessions, nextUserId, nextSessionId, now>>
         ELSE LET user == CHOOSE u \in FindById(users, userId) : TRUE
                  emailChanges == email # NotGiven /\ email # user.email IN
              IF emailChanges /\ FindByEmail(users, email) # {}
              THEN /\ last' = Thrown(req, ConflictException("User with this email already exists"))
                   /\ UNCHANGED <<users, sessions, nextUserId, nextSessionId, now>>
              ELSE /\ users' = (users \ {user}) \cup
                                {[user EXCEPT !.email = IF emailChanges THEN email ELSE @,
                                              !.passwordHash = IF password # NotGiven THEN password ELSE @]}
                   /\ last' = Response(req, 200, "User updated successfully", NoToken, {})
                   /\ UNCHANGED <<sessions, nextUserId, nextSessionId, now>>


\* Mutant of updateUser: the password is written to every row.
updateUserNoWhere(header, userId, email, password) ==
    LET g == GuardChain(Roles({ADMIN}), TRUE, header, now) IN
    IF g # "pass"
    THEN /\ last' = Thrown(Request("updateUser", header, 0, NotGiven, NotGiven), GuardRejection(g))
         /\ UNCHANGED <<users, sessions, nextUserId, nextSessionId, now>>
    ELSE LET req == Request("updateUser", header, userId, email, password) IN
         IF email = NotGiven /\ password = NotGiven
         THEN /\ last' = Thrown(req, BadRequestException(
                            "At least one field (email or password) must be provided for update"))
              /\ UNCHANGED <<users, sessions, nextUserId, nextSessionId, now>>
         ELSE IF FindById(users, userId) = {}
         THEN /\ last' = Thrown(req, NotFoundException("User not found"))
              /\ UNCHANGED <<users, sessions, nextUserId, nextSessionId, now>>
         ELSE LET user == CHOOSE u \in FindById(users, userId) : TRUE
                  emailChanges == email # NotGiven /\ email # user.email IN
              IF emailChanges /\ FindByEmail(users, email) # {}
              THEN /\ last' = Thrown(req, ConflictException("User with this email already exists"))
                   /\ UNCHANGED <<users, sessions, nextUserId, nextSessionId, now>>
              ELSE /\ users' = {[u EXCEPT !.email = IF emailChanges /\ u = user THEN email ELSE @,
                                            !.passwordHash = IF password # NotGiven THEN password ELSE @] :
                                u \in users}
                   /\ last' = Response(req, 200, "User updated successfully", NoToken, {})
                   /\ UNCHANGED <<sessions, nextUserId, nextSessionId, now>>


updateUser(header, userId, email, password) ==
    LET g == GuardChain(Roles({ADMIN}), TRUE, header, now) IN
    IF g # "pass"
    THEN /\ last' = Thrown(Request("updateUser", header, 0, NotGiven, NotGiven), GuardRejection(g))
         /\ UNCHANGED <<users, sessions, nextUserId, nextSessionId, now>>
    ELSE LET req == Request("updateUser", header, userId, email, password) IN
         IF email = NotGiven /\ password = NotGiven
         THEN /\ last' = Thrown(req, BadRequestException(
                            "At least one field (email or password) must be provided for update"))
              /\ UNCHANGED <<users, sessions, nextUserId, nextSessionId, now>>
         ELSE IF FindById(users, userId) = {}
         THEN /\ last' = Thrown(req, NotFoundException("User not found"))
              /\ UNCHANGED <<users, sessions, nextUserId, nextSessionId, now>>
         ELSE LET user == CHOOSE u \in FindById(users, userId) : TRUE
                  emailChanges == email # NotGiven /\ email # user.email IN
              IF emailChanges /\ FindByEmail(users, email) # {}
              THEN /\ last' = Thrown(req, ConflictException("User with this email already exists"))
                   /\ UNCHANGED <<users, sessions, nextUserId, nextSessionId, now>>
              ELSE /\ users' = (users \ {user}) \cup
                                {[user EXCEPT !.email = IF emailChanges THEN email ELSE @,
                                              !.passwordHash = IF password # NotGiven THEN password ELSE @]}
                   /\ last' = Response(req, 200, "User updated successfully", NoToken, {})
                   /\ UNCHANGED <<sessions, nextUserId, nextSessionId, now>>

(***************************************************************************)
(* GET /auth/users -> JwtAuthGuard, RolesGuard, @Roles(ADMIN)              *)
(*                 -> AuthService.getAllUsers                              *)
(***************************************************************************)
\* Mutant of UserSummary: find() without `select` returns the whole entity.
UserSummaryWholeEntity(u) == u

UserSummary(u) == [id |-> u.id, email |-> u.email, role |-> u.role, createdAt |-> u.createdAt]

getAllUsers(header) ==
    LET req == Request("getAllUsers", header, 0, NotGiven, NotGiven)
        g == GuardChain(Roles({ADMIN}), TRUE, header, now) IN
    /\ last' = IF g # "pass"
               THEN Thrown(req, GuardRejection(g))
               ELSE Response(req, 200, "Users retrieved successfully", NoToken,
                             {UserSummary(u) : u \in users})
    /\ UNCHANGED <<users, sessions, nextUserId, nextSessionId, now>>

(***************************************************************************)
(* DELETE /auth/users/:id -> JwtAuthGuard, RolesGuard, @Roles(ADMIN)       *)
(*                        -> AuthService.deleteUser                        *)
(***************************************************************************)
\* The lookup that binds `user` in deleteUser and its 404.
deleteUserNotFound(us, userId) == FindById(us, userId) = {}

\* Mutant of deleteUser: the user is removed without the cascade.
deleteUserNoCascade(header, userId) ==
    LET g == GuardChain(Roles({ADMIN}), TRUE, header, now) IN
    IF g # "pass"
    THEN /\ last' = Thrown(Request("deleteUser", header, 0, NotGiven, NotGiven), GuardRejection(g))
         /\ UNCHANGED <<users, sessions, nextUserId, nextSessionId, now>>
    ELSE LET req == Request("deleteUser", header, userId, NotGiven, NotGiven) IN
         IF deleteUserNotFound(users, userId)
         THEN /\ last' = Thrown(req, NotFoundException("User not found"))
              /\ UNCHANGED <<users, sessions, nextUserId, nextSessionId, now>>
         ELSE /\ users' = users \ FindById(users, userId)
              /\ last' = Response(req, 200, "User deleted successfully", NoToken, {})
              /\ UNCHANGED <<sessions, nextUserId, nextSessionId, now>>

deleteUser(header, userId) ==
    LET g == GuardChain(Roles({ADMIN}), TRUE, header, now) IN
    IF g # "pass"
    THEN /\ last' = Thrown(Request("deleteUser", header, 0, NotGiven, NotGiven), GuardRejection(g))
         /\ UNCHANGED <<users, sessions, nextUserId, nextSessionId, now>>
    ELSE LET req == Request("deleteUser", header, userId, NotGiven, NotGiven) IN
         IF deleteUserNotFound(users, userId)
         THEN /\ last' = Thrown(req, NotFoundException("User not found"))
              /\ UNCHANGED <<users, sessions, nextUserId, nextSessionId, now>>
         ELSE /\ sessions' = {s \in sessions : s.userId # userId}
              /\ users' = users \ FindById(users, userId)
              /\ last' = Response(req, 200, "User deleted successfully", NoToken, {})
              /\ UNCHANGED <<nextUserId, nextSessionId, now>>

(***************************************************************************)
(* Requests in flight.  signup and updateUser await the store twice: the   *)
(* lookups, then save().  Another request may run between the two; a       *)
(* request that has done its lookups waits in `pending` with the entity it *)
(* is about to save.                                                       *)
(***************************************************************************)
\* Mutant of UniqueViolation: users.email has no unique index.
UniqueViolationNever(us, id, email) == FALSE

\* @Column({ unique: true }) on users.email: a write that would give the
\* email to a second row fails with a QueryFailedError.
UniqueViolation(us, id, email) == \E u \in us : u.email = email /\ u.id # id

Slots == {p.slot : p \in pending}

NextSlot == CHOOSE n \in 1..(MaxPending + 1) : n \notin Slots /\ \A k \in 1..(n - 1) : k \in Slots

\* AuthService.signup up to the existence check.
signupFindOne(email, password) ==
    LET req == Request("signup", NoHeader, 0, email, password) IN
    IF FindByEmail(users, email) # {}
    THEN /\ last' = Thrown(req, ConflictException("User with this email already exists"))
         /\ UNCHANGED <<users, sessions, nextUserId, nextSessionId, now, pending>>
    ELSE /\ Cardinality(pending) < MaxPending
         /\ pending' = pending \cup
                {[slot |-> NextSlot, req |-> req,
                  user |-> [id |-> 0, email |-> email, passwordHash |-> password,
                            role |-> USER, createdAt |-> 0]]}
         /\ UNCHANGED <<users, sessions, nextUserId, nextSessionId, now, last>>

\* AuthService.signup from create() on: the insert and the response.  No
\* try/catch surrounds save(), so a store error leaves as a 500.
signupSave(p) ==
    /\ p.req.op = "signup"
    /\ pending' = pending \ {p}
    /\ IF UniqueViolation(users, p.user.id, p.user.email)
       THEN /\ last' = Thrown(p.req, InternalServerError)
            /\ UNCHANGED <<users, nextUserId>>
       ELSE /\ nextUserId <= MaxUsers
            /\ users' = users \cup {[p.user EXCEPT !.id = nextUserId, !.createdAt = now]}
            /\ nextUserId' = nextUserId + 1
            /\ last' = Response(p.req, 201, "User registered successfully", NoToken, {})
    /\ UNCHANGED <<sessions, nextSessionId, now>>

\* AuthService.updateUser behind its guards, up to the assignments to the
\* entity it has read.
updateUserFindOne(header, userId, email, password) ==
    LET g == GuardChain(Roles({ADMIN}), TRUE, header, now) IN
    IF g # "pass"
    THEN /\ last' = Thrown(Request("updateUser", header, 0, NotGiven, NotGiven), GuardRejection(g))
         /\ UNCHANGED <<users, sessions, nextUserId, nextSessionId, now, pending>>
    ELSE LET req == Request("updateUser", header, userId, email, password) IN
         IF email = NotGiven /\ password = NotGiven
         THEN /\ last' = Thrown(req, BadRequestException(
                            "At least one field (email or password) must be provided for update"))
              /\ UNCHANGED <<users, sessions, nextUserId, nextSessionId, now, pending>>
         ELSE IF FindById(users, userId) = {}
         THEN /\ last' = Thrown(req, NotFoundException("User not found"))
              /\ UNCHANGED <<users, sessions, nextUserId, nextSessionId, now, pending>>
         ELSE LET user == CHOOSE u \in FindById(users, userId) : TRUE
                  emailChanges == email # NotGiven /\ email # user.email IN
              IF emailChanges /\ FindByEmail(users, email) # {}
              THEN /\ last' = Thrown(req, ConflictException("User with this email already exists"))
                   /\ UNCHANGED <<users, sessions, nextUserId, nextSessionId, now, pending>>
              ELSE /\ Cardinality(pending) < MaxPending
                   /\ pending' = pending \cup
                          {[slot |-> NextSlot, req |-> req,
                            user |-> [user EXCEPT !.email = IF emailChanges THEN email ELSE @,
                                                  !.passwordHash = IF password # NotGiven THEN password ELSE @]]}
                   /\ UNCHANGED <<users, sessions, nextUserId, nextSessionId, now, last>>

\* AuthService.updateUser from save(user) on: the row of that id is written
\* from the entity, and the response.
updateUserSave(p) ==
    /\ p.req.op = "updateUser"
    /\ pending' = pending \ {p}
    /\ IF UniqueViolation(users, p.user.id, p.user.email)
       THEN /\ last' = Thrown(p.req, InternalServerError)
            /\ UNCHANGED users
       ELSE /\ users' = {u \in users : u.id # p.user.id} \cup {p.user}
            /\ last' = Response(p.req, 200, "User updated successfully", NoToken, {})
    /\ UNCHANGED <<sessions, nextUserId, nextSessionId, now>>

(***************************************************************************)
(* login and deleteUser in flight.  login awaits the store for the lookup  *)
(* and again for the insert of the SIGNIN event; deleteUser awaits it for  *)
(* the lookup, for the delete of the sessions and for the remove of the    *)
(* user.  `stage` is how far a pending request has come.                   *)
(***************************************************************************)
\* Mutant of DeleteRestricted: nothing holds back the delete of a user row.
DeleteRestrictedNever(ss, userId) == FALSE

\* The foreign key of user_sessions.userId (@ManyToOne with no onDelete):
\* a users row that a session still references cannot be deleted.
DeleteRestricted(ss, userId) == \E s \in ss : s.userId = userId

\* AuthService.login up to the password check.
loginFindOne(email, password) ==
    LET req == Request("login", NoHeader, 0, email, password)
        e == loginException(users, email, password) IN
    IF e # NoException
    THEN /\ last' = Thrown(req, e)
         /\ UNCHANGED <<users, sessions, nextUserId, nextSessionId, now, pending>>
    ELSE /\ Cardinality(pending) < MaxPending
         /\ pending' = pending \cup
                {[slot |-> NextSlot, req |-> req, stage |-> "verified",
                  user |-> CHOOSE u \in FindByEmail(users, email) : TRUE]}
         /\ UNCHANGED <<users, sessions, nextUserId, nextSessionId, now, last>>

\* AuthService.login from logUserSession on: the insert, then the token.
loginLog(p) ==
    /\ p.req.op = "login"
    /\ pending' = pending \ {p}
    /\ IF ForeignKeyViolation(users, p.user.id)
       THEN /\ last' = Thrown(p.req, InternalServerError)
            /\ UNCHANGED <<sessions, nextSessionId>>
       ELSE /\ nextSessionId <= MaxSessions
            /\ sessions' = logUserSession(p.user.id, SIGNIN)
            /\ nextSessionId' = nextSessionId + 1
            /\ last' = Response(p.req, 201, "Login successful", Sign(loginPayload(p.user), now), {})
    /\ UNCHANGED <<users, nextUserId, now>>

\* DELETE /auth/users/:id through the guards and the lookup of the user.
deleteUserFindOne(header, userId) ==
    LET g == GuardChain(Roles({ADMIN}), TRUE, header, now) IN
    IF g # "pass"
    THEN /\ last' = Thrown(Request("deleteUser", header, 0, NotGiven, NotGiven), GuardRejection(g))
         /\ UNCHANGED <<users, sessions, nextUserId, nextSessionId, now, pending>>
    ELSE LET req == Request("deleteUser", header, userId, NotGiven, NotGiven) IN
         IF deleteUserNotFound(users, userId)
         THEN /\ last' = Thrown(req, NotFoundException("User not found"))
              /\ UNCHANGED <<users, sessions, nextUserId, nextSessionId, now, pending>>
         ELSE /\ Cardinality(pending) < MaxPending
              /\ pending' = pending \cup
                     {[slot |-> NextSlot, req |-> req, stage |-> "found",
                       user |-> CHOOSE u \in FindById(users, userId) : TRUE]}
              /\ UNCHANGED <<users, sessions, nextUserId, nextSessionId, now, last>>

\* AuthService.deleteUser: userSessionRepository.delete({ userId }).
deleteUserSessions(p) ==
    /\ p.req.op = "deleteUser"
    /\ p.stage = "found"
    /\ sessions' = {s \in sessions : s.userId # p.user.id}
    /\ pending' = (pending \ {p}) \cup {[p EXCEPT !.stage = "cascaded"]}
    /\ UNCHANGED <<users, nextUserId, nextSessionId, now, last>>

\* AuthService.deleteUser: userRepository.remove(user) and the response.
deleteUserRemove(p) ==
    /\ p.req.op = "deleteUser"
    /\ p.stage = "cascaded"
    /\ pending' = pending \ {p}
    /\ IF DeleteRestricted(sessions, p.user.id)
       THEN /\ last' = Thrown(p.req, InternalServerError)
            /\ UNCHANGED users
       ELSE /\ users' = users \ FindById(users, p.user.id)
            /\ last' = Response(p.req, 200, "User deleted successfully", NoToken, {})
    /\ UNCHANGED <<sessions, nextUserId, nextSessionId, now>>

(***************************************************************************)
(* A route behind the guards: a handler declared with                      *)
(* @UseGuards(JwtAuthGuard) or @UseGuards(JwtAuthGuard, RolesGuard), with  *)
(* or without @Roles(...), that answers 200 with request.user.             *)
(***************************************************************************)
\* Every payload with each claim either present or falsy.
StagePayloads ==
    {[sub |-> s, email |-> e, role |-> r, createdAt |-> c] :
        s \in {1, NoSub}, e \in {"a@x.com", NotGiven},
        r \in {ADMIN, USER, NotGiven}, c \in {ToISOString(0), NotGiven}}

StageTokens(t) ==
    {[payload |-> p, iat |-> i, exp |-> i + TokenTTL, secret |-> k] :
        p \in StagePayloads, i \in {0, t}, k \in {JwtSecret, OtherSecret}}

StageHeaders(t) ==
    {NoHeader}
    \cup {[scheme |-> sc, token |-> tok] :
            sc \in {"Bearer", "bearer", "Basic"}, tok \in StageTokens(t)}

\* The guard declarations a handler can carry.
StageDeclarations ==
    {[requiredRoles |-> NoRolesMetadata, useRolesGuard |-> g] : g \in BOOLEAN}
    \cup {[requiredRoles |-> Roles(rs), useRolesGuard |-> TRUE] : rs \in SUBSET Role}

\* request.user when no guard has set it.
NoUser == [userId |-> NoSub, email |-> NotGiven, role |-> NotGiven]

dispatch(requiredRoles, useRolesGuard, header) ==
    LET req == [op |-> "dispatch", header |-> header, id |-> 0, email |-> NotGiven,
                password |-> NotGiven, requiredRoles |-> requiredRoles,
                useRolesGuard |-> useRolesGuard]
        g == GuardChain(requiredRoles, useRolesGuard, header, now) IN
    /\ last' = IF g # "pass"
               THEN [req |-> req, status |-> GuardRejection(g).status,
                     message |-> GuardRejection(g).message, token |-> NoToken, users |-> {},
                     user |-> NoUser]
               ELSE [req |-> req, status |-> 200, message |-> "OK", token |-> NoToken,
                     users |-> {}, user |-> RequestUser(header)]
    /\ UNCHANGED <<users, sessions, nextUserId, nextSessionId, now, pending>>

(***************************************************************************)
(* Environment: the operator's `UPDATE users SET role = 'admin' WHERE      *)
(* email = ...` and the passing of time.                                   *)
(***************************************************************************)
promoteToAdmin(email) ==
    /\ \E u \in FindByEmail(users, email) :
          /\ u.role = USER
          /\ users' = (users \ {u}) \cup {[u EXCEPT !.role = ADMIN]}
    /\ UNCHANGED <<sessions, nextUserId, nextSessionId, now, last, pending>>

Tick ==
    /\ now < MaxTime
    /\ now' = now + 1
    /\ UNCHANGED <<users, sessions, nextUserId, nextSessionId, last, pending>>

(***************************************************************************)
(* The specification.                                                      *)
(***************************************************************************)
UserIds == 1..MaxUsers

Init ==
    /\ users = {}
    /\ sessions = {}
    /\ nextUserId = 1
    /\ nextSessionId = 1
    /\ now = 0
    /\ last = Response(NoRequest, 0, NotGiven, NoToken, {})
    /\ pending = {}

\* The requests of AuthController, each handled from its guards to its
\* response with no other request in between; `emails` is what clients send
\* as email.
Requests(emails) ==
    \/ \E email \in emails, password \in Passwords :
          signup(email, password) /\ UNCHANGED pending
    \/ \E email \in emails, password \in Passwords :
          login(email, password) /\ UNCHANGED pending
    \/ \E header \in Headers(now) : logout(header) /\ UNCHANGED pending
    \/ \E header \in Headers(now), userId \in UserIds,
          email \in emails \cup {NotGiven}, password \in Passwords \cup {NotGiven} :
          \* the parameter and the body are read only once the guards have passed
          /\ GuardChain(Roles({ADMIN}), TRUE, header, now) # "pass"
                => userId = 1 /\ email = NotGiven /\ password = NotGiven
          /\ updateUser(header, userId, email, password)
          /\ UNCHANGED pending
    \/ \E header \in Headers(now) : getAllUsers(header) /\ UNCHANGED pending
    \/ \E header \in Headers(now), userId \in UserIds :
          /\ GuardChain(Roles({ADMIN}), TRUE, header, now) # "pass" => userId = 1
          /\ deleteUser(header, userId)
          /\ UNCHANGED pending

\* The service answering requests that all arrive within one unit of time.
Next == Requests(Emails)

Spec == Init /\ [][Next]_vars

\* The service over time, with every request about one email address.
NextClock == Requests({"a@x.com"}) \/ Tick

SpecClock == Init /\ [][NextClock]_vars

\* The service over time with every email address.
NextFull == Next \/ Tick

SpecFull == Init /\ [][NextFull]_vars

\* The service with an operator who promotes accounts in the store.
NextPromote == Next \/ \E email \in Emails : promoteToAdmin(email)

SpecPromote == Init /\ [][NextPromote]_vars

\* The service with every request about one email address and an operator
\* who promotes the account of that address.
NextRoles == Requests({"a@x.com"}) \/ promoteToAdmin("a@x.com")

SpecRoles == Init /\ [][NextRoles]_vars

\* signup and updateUser requests handled concurrently: any request may run
\* between the lookups and the save of another.
NextRace ==
    \/ \E email \in Emails, password \in PlainPasswords : signupFindOne(email, password)
    \/ \E p \in pending : signupSave(p)
    \/ \E header \in Headers(now), userId \in UserIds,
          email \in Emails \cup {NotGiven}, password \in PlainPasswords \cup {NotGiven} :
          /\ GuardChain(Roles({ADMIN}), TRUE, header, now) # "pass"
                => userId = 1 /\ email = NotGiven /\ password = NotGiven
          /\ updateUserFindOne(header, userId, email, password)
    \/ \E p \in pending : updateUserSave(p)

SpecRace == Init /\ [][NextRace]_vars

\* The guard stages alone: requests with any header to routes with any guard
\* declaration, over time.
NextStage ==
    \/ \E d \in StageDeclarations, header \in StageHeaders(now) :
          dispatch(d.requiredRoles, d.useRolesGuard, header)
    \/ Tick

SpecStage == Init /\ [][NextStage]_vars

\* deleteUser handled concurrently with login and logout: any request may
\* run between two store operations of another.
NextCascade ==
    \/ \E password \in Passwords : signup("a@x.com", password) /\ UNCHANGED pending
    \/ \E password \in PlainPasswords : loginFindOne("a@x.com", password)
    \/ \E p \in pending : loginLog(p)
    \/ \E header \in Headers(now) : logout(header) /\ UNCHANGED pending
    \/ \E header \in Headers(now), userId \in UserIds :
          /\ GuardChain(Roles({ADMIN}), TRUE, header, now) # "pass" => userId = 1
          /\ deleteUserFindOne(header, userId)
    \/ \E p \in pending : deleteUserSessions(p)
    \/ \E p \in pending : deleteUserRemove(p)

SpecCascade == Init /\ [][NextCascade]_vars

\* Tokens of every subject, of a missing subject, and signed with another
\* key, presented to POST /auth/logout.
SubjectPayloads ==
    {[sub |-> i, email |-> e, role |-> USER, createdAt |-> ToISOString(0)] :
        i \in UserIds \cup {NoSub}, e \in Emails}

SubjectHeaders(t) ==
    {NoHeader}
    \cup {[scheme |-> "Bearer",
           token |-> [payload |-> p, iat |-> t, exp |-> t + TokenTTL, secret |-> k]] :
            p \in SubjectPayloads, k \in {JwtSecret, OtherSecret}}

NextLogout ==
    \/ \E email \in Emails, password \in PlainPasswords :
          signup(email, password) /\ UNCHANGED pending
    \/ \E header \in SubjectHeaders(now) : logout(header) /\ UNCHANGED pending

SpecLogout == Init /\ [][NextLogout]_vars

TypeOK ==
    /\ \A u \in users : u.id \in 1..MaxUsers /\ u.email \in Emails /\ u.passwordHash \in Passwords
                        /\ u.role \in Role /\ u.createdAt \in 0..MaxTime
    /\ \A s \in sessions : s.id \in 1..MaxSessions /\ s.action \in {SIGNIN, SIGNOUT}
    /\ now \in 0..MaxTime

(***************************************************************************)
(* Properties.                                                             *)
(***************************************************************************)
Bearer(token) == [scheme |-> "Bearer", token |-> token]

Store == <<users, sessions, nextUserId, nextSessionId>>

\* The two ways a login is refused.
UnknownEmail(email) == FindByEmail(users, email) = {}
WrongPassword(email, password) ==
    \E u \in FindByEmail(users, email) : ~BcryptCompare(password, u.passwordHash)

\* The step is a request to the named endpoint; `last'` holds what was sent.
SignupStep == last'.req.op = "signup" /\ signup(last'.req.email, last'.req.password)
LoginStep == last'.req.op = "login" /\ login(last'.req.email, last'.req.password)
LogoutStep == last'.req.op = "logout" /\ logout(last'.req.header)
GetAllUsersStep == last'.req.op = "getAllUsers" /\ getAllUsers(last'.req.header)
DeleteUserStep ==
    /\ last'.req.op = "deleteUser"
    /\ \E userId \in UserIds : deleteUser(last'.req.header, userId)
UpdateUserStep ==
    /\ last'.req.op = "updateUser"
    /\ \E userId \in UserIds :
          updateUser(last'.req.header, userId, last'.req.email, last'.req.password)

\* A step of one of the three handlers declared with @Roles(Role.ADMIN).
AdminStep == GetAllUsersStep \/ DeleteUserStep \/ UpdateUserStep

\* A step of any handler behind JwtAuthGuard.
GuardedStep == LogoutStep \/ AdminStep

SignoutsOf(ss, userId) == {s \in ss : s.userId = userId /\ s.action = SIGNOUT}

\* C1: a signup of a fresh email followed by a login with the same email and
\* password succeeds and returns a token carrying that email and role USER.
C1_SignupThenLogin ==
    [][(/\ last.req.op = "signup"
        /\ last.status = 201
        /\ LoginStep
        /\ last'.req.email = last.req.email
        /\ last'.req.password = last.req.password)
       => /\ last'.status = 201
          /\ last'.token.payload.email = last.req.email
          /\ last'.token.payload.role = USER]_vars

\* C2: after every credential write (a successful signup, a successful
\* updateUser with a password) the stored passwordHash is a one-way digest of
\* the password that was supplied, never the supplied password itself.
C2_CredentialIsHashed ==
    /\ (last.req.op = "signup" /\ last.status = 201)
          => \A u \in FindByEmail(users, last.req.email) :
                u.passwordHash # last.req.password /\ BcryptCompare(last.req.password, u.passwordHash)
    /\ (last.req.op = "updateUser" /\ last.status = 200 /\ last.req.password # NotGiven)
          => \A u \in FindById(users, last.req.id) :
                u.passwordHash # last.req.password /\ BcryptCompare(last.req.password, u.passwordHash)

\* C3: a signup with an email that is already registered answers 409
\* Conflict whatever the password, and changes neither users nor sessions.
C3_SignupConflict ==
    [][(SignupStep /\ FindByEmail(users, last'.req.email) # {})
       => /\ last'.status = 409
          /\ last'.message = "User with this email already exists"
          /\ UNCHANGED Store]_vars

C3_Witness ==
    /\ last.req.op = "signup"
    /\ last.status = 409
    /\ \E u \in FindByEmail(users, last.req.email) : u.passwordHash # last.req.password

\* C4: a login with an unknown email and a login with a known email and a
\* wrong password get the same response: 401 with the message
\* 'Invalid credentials', no token, nothing written.
C4_LoginFailuresIdentical ==
    [][(/\ LoginStep
        /\ UnknownEmail(last'.req.email) \/ WrongPassword(last'.req.email, last'.req.password))
       => /\ [status |-> last'.status, message |-> last'.message,
              token |-> last'.token, users |-> last'.users]
             = [status |-> 401, message |-> "Invalid credentials",
                token |-> NoToken, users |-> {}]
          /\ UNCHANGED Store]_vars

C4_Witness ==
    /\ last.req.op = "login"
    /\ last.status = 401
    /\ ~UnknownEmail(last.req.email)
    /\ \E email \in Emails : UnknownEmail(email)

\* C5: a token issued by a successful login, presented as a bearer token
\* before its expiry, passes the Authentication Stage and yields the identity
\* {userId, email, role} of the account.
C5_IssuedTokenAccepted ==
    (last.req.op = "login" /\ last.status = 201 /\ now < last.token.exp)
       => /\ JwtAuthGuard(Bearer(last.token), now)
          /\ RequestUser(Bearer(last.token)).email = last.req.email
          /\ RequestUser(Bearer(last.token)).role \in Role

\* C6: a request whose token has expired, or is signed with a key other
\* than the configured one, is answered 401 on every guarded endpoint and no
\* handler runs (nothing is written, nothing is listed).
C6_ExpiredOrForgedRejected ==
    [][(/\ GuardedStep
        /\ last'.req.header # NoHeader
        /\ now >= last'.req.header.token.exp \/ last'.req.header.token.secret # JwtSecret)
       => /\ last'.status = 401
          /\ last'.users = {}
          /\ UNCHANGED Store]_vars

C6_Witness ==
    /\ last.req.op \in {"logout", "updateUser", "getAllUsers", "deleteUser"}
    /\ last.status = 401
    /\ last.req.header.scheme = "Bearer"
    /\ last.req.header.token.payload.role = ADMIN
    /\ last.req.header.token.secret = JwtSecret
    /\ last.req.header.token.exp < now

\* C7: on the handlers that require {ADMIN}, a request whose verified
\* identity has role USER is answered 403 and one whose verified identity
\* has role ADMIN is let through to the handler.
C7_AdminOnlyDecision ==
    [][(AdminStep /\ JwtAuthGuard(last'.req.header, now))
       => /\ RequestUser(last'.req.header).role = USER => last'.status = 403
          /\ RequestUser(last'.req.header).role = ADMIN => last'.status \notin {401, 403}]_vars

\* C8: updateUser, getAllUsers and deleteUser run only for a request that
\* passed JwtAuthGuard and then RolesGuard with role ADMIN: any other request
\* is answered 401 (no valid token) or 403 (role USER), writes nothing and
\* lists nothing.
C8_AdminHandlersGuarded ==
    [][AdminStep
       => LET header == last'.req.header IN
          /\ ~JwtAuthGuard(header, now) => last'.status = 401
          /\ (JwtAuthGuard(header, now) /\ RequestUser(header).role # ADMIN) => last'.status = 403
          /\ (last'.status \notin {401, 403} \/ last'.users # {} \/ Store' # Store)
                => JwtAuthGuard(header, now) /\ RequestUser(header).role = ADMIN]_vars

C8_Witness ==
    /\ last.req.op = "updateUser"
    /\ last.status = 200
    /\ last.req.header.token.payload.role = ADMIN
    /\ last.req.email # NotGiven
    /\ \E u \in FindById(users, last.req.id) : u.email = last.req.email

\* C9: after a successful deleteUser(id) the store holds neither the
\* account nor a session event of it, and a login with the account's email
\* is then answered 401 'Invalid credentials' (not 403).
C9_DeleteRemovesAccount ==
    [][(DeleteUserStep /\ last'.status = 200)
       => LET userId == last'.req.id IN
          /\ FindById(users, userId) # {}
          /\ FindById(users', userId) = {}
          /\ \A s \in sessions' : s.userId # userId
          /\ \A u \in FindById(users, userId), password \in Passwords :
                loginException(users', u.email, password) = UnauthorizedException("Invalid credentials")]_vars

C9_Witness ==
    /\ last.req.op = "deleteUser"
    /\ last.status = 200
    /\ nextUserId = 2
    /\ nextSessionId > 1
    /\ users = {}
    /\ sessions = {}

\* C10: a logout for an existing account succeeds and appends exactly one
\* SIGNOUT event for it; a logout right after a successful logout of the same
\* account finds the account still there, so it succeeds as well and the
\* journal then holds the SIGNOUT events of both calls.
C10_LogoutTwice ==
    [][(LogoutStep /\ JwtAuthGuard(last'.req.header, now))
       => LET userId == RequestUser(last'.req.header).userId IN
          /\ FindById(users, userId) # {}
                => /\ last'.status = 201
                   /\ sessions' = sessions \cup {[id |-> nextSessionId, userId |-> userId,
                                                  action |-> SIGNOUT, timestamp |-> now]}
                   /\ Cardinality(SignoutsOf(sessions', userId))
                         = Cardinality(SignoutsOf(sessions, userId)) + 1
          /\ (/\ last.req.op = "logout"
              /\ last.status = 201
              /\ RequestUser(last.req.header).userId = userId)
                => /\ FindById(users, userId) # {}
                   /\ \E s \in SignoutsOf(sessions', userId) : s.id = nextSessionId - 1
                   /\ \E s \in SignoutsOf(sessions', userId) : s.id = nextSessionId]_vars

C10_Witness ==
    /\ last.req.op = "logout"
    /\ last.status = 201
    /\ Cardinality(SignoutsOf(sessions, RequestUser(last.req.header).userId)) = 2

\* A step of any operation of AuthService.
ServiceStep == SignupStep \/ LoginStep \/ GuardedStep

\* C11: an account that signup creates has role USER, and no operation of
\* the service (signup, login, logout, updateUser, deleteUser, getAllUsers)
\* changes the role of an account, whatever role the account or the caller
\* has: only the operator's SQL changes a role.
C11_RoleNeverElevated ==
    [][ServiceStep
       => /\ \A v \in users' : FindById(users, v.id) = {} => v.role = USER
          /\ \A u \in users, v \in users' : v.id = u.id => v.role = u.role]_vars

C11_Witness ==
    /\ last.req.op = "updateUser"
    /\ last.status = 200
    /\ last.req.password # NotGiven
    /\ \E u \in FindById(users, last.req.id) :
          u.role = ADMIN /\ u.passwordHash = last.req.password /\ u.id = 2

\* C12: no two accounts have the same email, in every state that signup and
\* updateUser requests reach, run one after the other or interleaved.
C12_EmailsUnique ==
    \A u \in users, v \in users : u.email = v.email => u = v

C12_Witness ==
    /\ last.req.op = "updateUser"
    /\ last.status = 500
    /\ Cardinality(users) = 2
    /\ \E u \in users : u.email = last.req.email /\ u.id # last.req.id

\* The step is the save of a signup that did its existence check earlier.
SignupSaveStep == last'.req.op = "signup" /\ \E p \in pending : signupSave(p)

\* C13: when a signup passed the existence check and another request for
\* the same email committed before its save, the signup is answered with the
\* 409 of the existence check and the store keeps exactly one account of that
\* email.
C13_RaceLoserGetsConflict ==
    [][(SignupSaveStep /\ FindByEmail(users, last'.req.email) # {})
       => /\ last'.status = 409
          /\ last'.message = "User with this email already exists"
          /\ Cardinality(FindByEmail(users', last'.req.email)) = 1]_vars

\* C14: the token of a successful login carries the role the account has at
\* that moment, and GET /auth/users decides on that role alone until the
\* token expires, whatever the store says later: a token issued to a USER
\* account stays at 403 after the account is promoted, and a token issued
\* after the promotion is let through to the listing.
C14_TokenIsSnapshot ==
    [][(LoginStep /\ last'.status = 201)
       => \A u \in FindByEmail(users, last'.req.email) :
             LET header == Bearer(last'.token) IN
             /\ last'.token.payload.role = u.role
             /\ u.role = USER
                   => \A t \in now..(last'.token.exp - 1) :
                         GuardChain(Roles({ADMIN}), TRUE, header, t) = "403"
             /\ u.role = ADMIN
                   => GuardChain(Roles({ADMIN}), TRUE, header, now) = "pass"]_vars

\* The step is a request to a guarded route.
DispatchStep ==
    /\ last'.req.op = "dispatch"
    /\ dispatch(last'.req.requiredRoles, last'.req.useRolesGuard, last'.req.header)

\* A claim of the token is absent, empty or zero.
ClaimMissing(payload) ==
    \/ payload.sub = NoSub
    \/ payload.email = NotGiven
    \/ payload.role = NotGiven
    \/ payload.createdAt = NotGiven

\* C15: the Authentication Stage answers every failure case the same way,
\* 401 'Unauthorized' and nothing else: no Authorization header, a scheme
\* other than Bearer, a signature under another key, an expired token, a
\* required claim missing.  In none of them is an identity attached or the
\* handler run.
C15_AuthFailuresUniform ==
    [][(/\ DispatchStep
        /\ LET header == last'.req.header IN
           \/ header = NoHeader
           \/ header.scheme \notin {"Bearer", "bearer"}
           \/ header.token.secret # JwtSecret
           \/ now >= header.token.exp
           \/ ClaimMissing(header.token.payload))
       => /\ last'.status = 401
          /\ last'.message = "Unauthorized"
          /\ last'.user = NoUser]_vars

\* C16: on a route whose required roles are a non-empty set, a request with
\* no verified identity is answered 401, one whose verified identity has a
\* role outside the set is answered 403, and every other request reaches the
\* handler.
C16_RoleDecision ==
    [][(/\ DispatchStep
        /\ last'.req.useRolesGuard
        /\ last'.req.requiredRoles.declared
        /\ last'.req.requiredRoles.roles # {})
       => LET header == last'.req.header
              roles == last'.req.requiredRoles.roles IN
          /\ ~JwtAuthGuard(header, now) => last'.status = 401
          /\ (JwtAuthGuard(header, now) /\ RequestUser(header).role \notin roles)
                => last'.status = 403
          /\ (JwtAuthGuard(header, now) /\ RequestUser(header).role \in roles)
                => last'.status = 200 /\ last'.user = RequestUser(header)]_vars

\* C17: on a route that requires no role, whether it declares none or
\* declares an empty list of roles, every request with a verified identity
\* reaches the handler, whatever the role of the identity.
C17_NoRolesAllowsAll ==
    [][(/\ DispatchStep
        /\ last'.req.useRolesGuard
        /\ ~last'.req.requiredRoles.declared \/ last'.req.requiredRoles.roles = {}
        /\ JwtAuthGuard(last'.req.header, now))
       => last'.status = 200 /\ last'.user = RequestUser(last'.req.header)]_vars

\* C18: a token signed with the configured key and not expired, whose
\* payload lacks sub, email, role or createdAt (or has it empty or zero),
\* yields no verified identity: the request is answered 401.
C18_IncompleteTokenInvalid ==
    [][(/\ DispatchStep
        /\ last'.req.header # NoHeader
        /\ last'.req.header.scheme = "Bearer"
        /\ last'.req.header.token.secret = JwtSecret
        /\ now < last'.req.header.token.exp
        /\ ClaimMissing(last'.req.header.token.payload))
       => /\ ~JwtAuthGuard(last'.req.header, now)
          /\ last'.user = NoUser
          /\ last'.status = 401]_vars

\* C19: a logout with a verified identity succeeds and appends one SIGNOUT
\* event for the identity's id in every state: with no SIGNIN event of that
\* id in the journal, and with no account of that id in the store.
C19_LogoutAlwaysSucceeds ==
    [][(LogoutStep /\ JwtAuthGuard(last'.req.header, now))
       => /\ last'.status = 201
          /\ sessions' = sessions \cup
                {[id |-> nextSessionId, userId |-> RequestUser(last'.req.header).userId,
                  action |-> SIGNOUT, timestamp |-> now]}]_vars

\* C20: a successful login appends exactly one event, a SIGNIN of the
\* account, and no token is issued without it; a refused login appends no
\* event and issues no token.
C20_LoginJournal ==
    [][LoginStep
       => IF last'.status = 201
          THEN /\ \E u \in FindByEmail(users, last'.req.email) :
                     sessions' = sessions \cup {[id |-> nextSessionId, userId |-> u.id,
                                                    action |-> SIGNIN, timestamp |-> now]}
               /\ Cardinality(sessions') = Cardinality(sessions) + 1
               /\ last'.token # NoToken
          ELSE /\ UnknownEmail(last'.req.email)
                     \/ WrongPassword(last'.req.email, last'.req.password)
               /\ sessions' = sessions
               /\ last'.token = NoToken]_vars

C20_Witness ==
    /\ last.req.op = "login"
    /\ last.status = 201
    /\ last.token # NoToken
    /\ Cardinality({s \in sessions : s.action = SIGNIN /\ s.userId = last.token.payload.sub}) = 2

\* The updateUser step passed the guards, so the handler ran.
UpdateUserHandled ==
    UpdateUserStep /\ GuardChain(Roles({ADMIN}), TRUE, last'.req.header, now) = "pass"

\* C21: updateUser with neither email nor password is answered 400 and
\* changes nothing in the store; the body is checked before the account is
\* looked up, so the answer is 400, not 404, for an id that names no account.
C21_EmptyUpdateIsBadRequest ==
    [][(UpdateUserHandled /\ last'.req.email = NotGiven /\ last'.req.password = NotGiven)
       => /\ last'.status = 400
          /\ last'.message = "At least one field (email or password) must be provided for update"
          /\ UNCHANGED Store]_vars

C21_Witness ==
    /\ last.req.op = "updateUser"
    /\ last.status = 400
    /\ users # {}
    /\ FindById(users, last.req.id) = {}

\* C22: updateUser with an email that differs from the account's email and
\* belongs to another account is answered 409 and leaves the store as it
\* was: neither the email nor a password sent in the same call is written.
C22_UpdateConflict ==
    [][(/\ UpdateUserHandled
        /\ last'.req.email # NotGiven
        /\ \E target \in FindById(users, last'.req.id), other \in users :
              /\ target.email # last'.req.email
              /\ other.id # target.id
              /\ other.email = last'.req.email)
       => /\ last'.status = 409
          /\ last'.message = "User with this email already exists"
          /\ UNCHANGED Store]_vars

C22_Witness ==
    /\ last.req.op = "updateUser"
    /\ last.status = 409
    /\ last.req.password # NotGiven
    /\ \E target \in FindById(users, last.req.id) :
          target.passwordHash # last.req.password /\ target.email # last.req.email

\* The deleteUser step passed the guards, so the handler ran.
DeleteUserHandled ==
    DeleteUserStep /\ GuardChain(Roles({ADMIN}), TRUE, last'.req.header, now) = "pass"

\* C23: updateUser with at least one field, and deleteUser, for an id that
\* names no account are answered 404 and change no account and no session
\* event.
C23_UnknownIdNotFound ==
    [][(/\ FindById(users, last'.req.id) = {}
        /\ \/ DeleteUserHandled
           \/ UpdateUserHandled /\ (last'.req.email # NotGiven \/ last'.req.password # NotGiven))
       => /\ last'.status = 404
          /\ last'.message = "User not found"
          /\ UNCHANGED Store]_vars

C23_Witness ==
    /\ last.req.op = "updateUser"
    /\ last.status = 404
    /\ last.req.email # NotGiven
    /\ users # {}
    /\ sessions # {}

\* C24: no response carries a passwordHash: every entry of the listing of
\* getAllUsers has the fields id, email, role and createdAt and no other, and
\* the message and the token of any response (signup, login, logout,
\* updateUser, deleteUser) hold no account's passwordHash.
C24_HashNeverExposed ==
    /\ \A x \in last.users : DOMAIN x = {"id", "email", "role", "createdAt"}
    /\ DOMAIN last.token.payload = {"sub", "email", "role", "createdAt"}
    /\ \A u \in users :
          u.passwordHash \notin {last.message, last.token.payload.email, last.token.payload.role,
                                  last.token.payload.createdAt, last.token.secret}

C24_Witness ==
    /\ last.req.op = "getAllUsers"
    /\ last.status = 200
    /\ Cardinality(last.users) = 2
    /\ \A u \in users : \E x \in last.users : x.id = u.id /\ x.email = u.email

\* C25: the role test is exact membership: on a route that declares
\* required roles, a verified identity with role ADMIN is answered 403 when
\* ADMIN is not among them (on {USER} in particular), and reaches the handler
\* only when ADMIN is listed.
C25_ExactMembership ==
    [][(/\ DispatchStep
        /\ last'.req.useRolesGuard
        /\ last'.req.requiredRoles.declared
        /\ JwtAuthGuard(last'.req.header, now)
        /\ RequestUser(last'.req.header).role = ADMIN)
       => /\ ADMIN \notin last'.req.requiredRoles.roles => last'.status = 403
          /\ last'.status = 200 => ADMIN \in last'.req.requiredRoles.roles]_vars

C25_Witness ==
    /\ last.req.op = "dispatch"
    /\ last.req.requiredRoles = Roles({USER})
    /\ last.req.header.scheme = "Bearer"
    /\ last.user = NoUser
    /\ last.status = 403
    /\ last.req.header.token.payload.role = ADMIN
    /\ last.req.header.token.secret = JwtSecret
    /\ ~ClaimMissing(last.req.header.token.payload)

\* C26: the Authorization Stage decides on the verified identity and the
\* route's required roles alone: two requests to the same route whose
\* verified identities are equal get the same decision, whatever else their
\* Authorization headers hold.
C26_DecisionOfIdentityOnly ==
    [][(/\ DispatchStep
        /\ last.req.op = "dispatch"
        /\ last'.req.requiredRoles = last.req.requiredRoles
        /\ last'.req.useRolesGuard = last.req.useRolesGuard
        /\ JwtAuthGuard(last.req.header, now)
        /\ JwtAuthGuard(last'.req.header, now)
        /\ RequestUser(last'.req.header) = RequestUser(last.req.header))
       => ((last'.status = 403) <=> (last.status = 403))]_vars

\* C27: the journal is append-only outside account deletion: every event
\* is still there, unchanged, after any signup, login, logout, updateUser or
\* getAllUsers, and an event leaves the journal only in a successful
\* deleteUser of the account it references.
C27_JournalAppendOnly ==
    [][\/ sessions \subseteq sessions'
       \/ /\ DeleteUserStep
          /\ last'.status = 200
          /\ \A s \in sessions \ sessions' : s.userId = last'.req.id]_vars

C27_Witness ==
    /\ last.req.op = "deleteUser"
    /\ last.status = 200
    /\ nextSessionId = 3
    /\ Cardinality(sessions) = 1
    /\ \A s \in sessions : s.userId # last.req.id /\ FindById(users, s.userId) # {}

\* C28: a successful updateUser changes the email and the passwordHash of
\* the target account and nothing else, and each of the two only when it was
\* sent: the target keeps its id, role and createdAt, every other account and
\* every session event is as before.
C28_UpdateFrame ==
    [][(UpdateUserStep /\ last'.status = 200)
       => /\ \E target \in FindById(users, last'.req.id), after \in FindById(users', last'.req.id) :
                /\ users' \ {after} = users \ {target}
                /\ after.id = target.id
                /\ after.role = target.role
                /\ after.createdAt = target.createdAt
                /\ after.email = IF last'.req.email # NotGiven THEN last'.req.email ELSE target.email
                /\ after.passwordHash = IF last'.req.password # NotGiven
                                        THEN last'.req.password ELSE target.passwordHash
          /\ Cardinality(users') = Cardinality(users)
          /\ UNCHANGED <<sessions, nextUserId, nextSessionId>>]_vars

C28_Witness ==
    /\ last.req.op = "updateUser"
    /\ last.status = 200
    /\ last.req.email # NotGiven
    /\ last.req.password # NotGiven
    /\ Cardinality(users) = 2
    /\ sessions # {}
    /\ \E u \in users : u.id # last.req.id /\ u.passwordHash # last.req.password

\* C29: with deleteUser, login and logout interleaved at their store
\* operations, every event of the journal references an existing account in
\* every state, and once a deleteUser has answered success the journal
\* holds no event of the account it deleted.
C29_NoOrphanEvents ==
    /\ \A s \in sessions : FindById(users, s.userId) # {}
    /\ (last.req.op = "deleteUser" /\ last.status = 200)
          => \A s \in sessions : s.userId # last.req.id

C29_Witness ==
    /\ last.req.op = "deleteUser"
    /\ last.status = 200
    /\ nextSessionId > 1
    /\ \E p \in pending : p.req.op = "login" /\ p.user.id = last.req.id

\* C30: every event that POST /auth/logout appends is a SIGNOUT whose
\* userId is the sub of the token presented with that request, which the
\* guard verified; a request the guard refused appends nothing.
C30_SignoutOfSubject ==
    [][LogoutStep
       => \A s \in sessions' \ sessions :
             /\ JwtAuthGuard(last'.req.header, now)
             /\ s.action = SIGNOUT
             /\ s.userId = last'.req.header.token.payload.sub]_vars

\* A signout recorded for account 2 with a token whose email claim is the
\* email of account 1.
C30_Witness ==
    /\ last.req.op = "logout"
    /\ last.status = 201
    /\ last.req.header.token.payload.sub = 2
    /\ \E u \in FindByEmail(users, last.req.header.token.payload.email) : u.id = 1
    /\ \E s \in sessions : s.userId = 2 /\ s.action = SIGNOUT /\ s.id = nextSessionId - 1
    /\ \E s \in sessions : s.userId = 1 /\ s.action = SIGNOUT

====
